---- MODULE Spec2Model ----
(***************************************************************************)
(* Sequence generator (Streamlit scripts "app.py" and "app (2).py").       *)
(*                                                                         *)
(* Every number the scripts compute with is a Python float (the widgets    *)
(* are created with value=1.0, step=0.1) or a Python int converted to a    *)
(* float by a mixed operation.  A float is modelled as what it is: an IEEE *)
(* 754 binary64 value with a 53 bit significand, round-to-nearest-even     *)
(* arithmetic, signed zero, infinities, and the OverflowError that float   *)
(* ** raises.  Significands are kept as little-endian sequences of 14 bit  *)
(* limbs, so that all arithmetic stays inside TLC's integers.              *)
(***************************************************************************)
EXTENDS Integers, Sequences, FiniteSets, TLC

(***************************************************************************)
(* Natural numbers of any size: <<>> is 0, otherwise limbs in 0..Base-1,   *)
(* least significant first, last limb non-zero.                            *)
(***************************************************************************)
LimbBits == 7 + 7

Base == 2 ^ LimbBits

Max(a, b) == IF a >= b THEN a ELSE b

Min(a, b) == IF a <= b THEN a ELSE b

\* x without its leading (most significant) zero limbs; t counts the limbs
\* dropped
BNorm(x) ==
  IF \A i \in 1..Len(x) : x[i] = 0 THEN <<>>
  ELSE SubSeq(x, 1, Len(x) - (CHOOSE t \in 0..(Len(x) - 1) :
                                /\ x[Len(x) - t] # 0
                                /\ \A u \in 0..(t - 1) : x[Len(x) - u] = 0))

RECURSIVE BFromInt(_)
BFromInt(n) ==
  IF n = 0 THEN <<>> ELSE <<n % Base>> \o BFromInt(n \div Base)

Limb(x, i) == IF i >= 1 /\ i <= Len(x) THEN x[i] ELSE 0

\* the carry into limb i of x + y: the nearest lower limb pair whose sum is
\* not Base - 1 (t limbs down) decides, a carry runs through the pairs between
CarryIn(x, y, i) ==
  LET t == CHOOSE t \in 1..i :
             /\ t = i \/ Limb(x, i - t) + Limb(y, i - t) # Base - 1
             /\ \A u \in 1..(t - 1) : Limb(x, i - u) + Limb(y, i - u) = Base - 1
  IN  IF t < i /\ Limb(x, i - t) + Limb(y, i - t) >= Base THEN 1 ELSE 0

BAdd(x, y) ==
  IF x = <<>> THEN y
  ELSE IF y = <<>> THEN x
  ELSE BNorm([i \in 1..(Max(Len(x), Len(y)) + 1) |->
               (Limb(x, i) + Limb(y, i) + CarryIn(x, y, i)) % Base])

\* the borrow out of the limbs below i in x - y: the nearest lower limb pair
\* that differs (t limbs down) decides
BorrowIn(x, y, i) ==
  LET t == CHOOSE t \in 1..i :
             /\ t = i \/ Limb(x, i - t) # Limb(y, i - t)
             /\ \A u \in 1..(t - 1) : Limb(x, i - u) = Limb(y, i - u)
  IN  IF t < i /\ Limb(x, i - t) < Limb(y, i - t) THEN 1 ELSE 0

\* x - y for x >= y
BSub(x, y) ==
  IF y = <<>> THEN x
  ELSE BNorm([i \in 1..Len(x) |->
               (Limb(x, i) - Limb(y, i) - BorrowIn(x, y, i) + Base) % Base])

\* -1, 0 or 1 as x <, =, > y: the highest limb that differs decides
BCmp(x, y) ==
  IF Len(x) < Len(y) THEN -1
  ELSE IF Len(x) > Len(y) THEN 1
  ELSE IF x = y THEN 0
  ELSE LET t == CHOOSE t \in 0..(Len(x) - 1) :
                  /\ x[Len(x) - t] # y[Len(x) - t]
                  /\ \A u \in 0..(t - 1) : x[Len(x) - u] = y[Len(x) - u]
       IN  IF x[Len(x) - t] < y[Len(x) - t] THEN -1 ELSE 1

\* x * k for 0 <= k < Base: the low halves of the limb products plus the
\* high halves one limb up
BMulSmall(x, k) ==
  IF x = <<>> \/ k = 0 THEN <<>>
  ELSE BAdd(BNorm([i \in 1..Len(x) |-> (x[i] * k) % Base]),
            BNorm(<<0>> \o [i \in 1..Len(x) |-> (x[i] * k) \div Base]))

\* x * y, by halving y (y = lo + Base^h * hi)
RECURSIVE BMul(_, _)
BMul(x, y) ==
  IF x = <<>> \/ y = <<>> THEN <<>>
  ELSE IF Len(y) = 1 THEN BMulSmall(x, y[1])
  ELSE LET h  == Len(y) \div 2
           lo == BMul(x, BNorm(SubSeq(y, 1, h)))
           hi == BMul(x, SubSeq(y, h + 1, Len(y)))
       IN  BAdd(lo, IF hi = <<>> THEN hi ELSE [i \in 1..h |-> 0] \o hi)

Zeros(n) == [i \in 1..n |-> 0]

\* x * 2^k
BShl(x, k) ==
  IF x = <<>> THEN x
  ELSE Zeros(k \div LimbBits) \o BMulSmall(x, 2 ^ (k % LimbBits))

\* floor(x / 2^k)
BShr(x, k) ==
  IF k \div LimbBits >= Len(x) THEN <<>>
  ELSE LET w == k \div LimbBits
           b == k % LimbBits
       IN  BNorm([i \in 1..(Len(x) - w) |->
                   (x[i + w] \div (2 ^ b))
                   + (Limb(x, i + w + 1) % (2 ^ b)) * (2 ^ (LimbBits - b))])

RECURSIVE SmallBitLen(_)
SmallBitLen(n) == IF n = 0 THEN 0 ELSE 1 + SmallBitLen(n \div 2)

BBitLen(x) ==
  IF x = <<>> THEN 0 ELSE LimbBits * (Len(x) - 1) + SmallBitLen(x[Len(x)])

\* bit i of x (bit 0 is the least significant)
BBit(x, i) ==
  IF i < 0 \/ i \div LimbBits >= Len(x) THEN 0
  ELSE (x[(i \div LimbBits) + 1] \div (2 ^ (i % LimbBits))) % 2

\* TRUE iff the k lowest bits of x are all 0
BLowZero(x, k) ==
  \/ k <= 0
  \/ x = <<>>
  \/ /\ \A j \in 1..Min(k \div LimbBits, Len(x)) : x[j] = 0
     /\ \/ k \div LimbBits >= Len(x)
        \/ x[(k \div LimbBits) + 1] % (2 ^ (k % LimbBits)) = 0

\* number of trailing zero bits of x # 0
RECURSIVE SmallTz(_)
SmallTz(n) == IF n % 2 = 1 THEN 0 ELSE 1 + SmallTz(n \div 2)

BTz(x) ==
  LET i == CHOOSE i \in 1..Len(x) : x[i] # 0 /\ \A j \in 1..(i - 1) : x[j] = 0
  IN  LimbBits * (i - 1) + SmallTz(x[i])

\* binary long division, one step: bring down bit i of n
BLongDivStep(n, d, i, st) ==
  LET r2 == BAdd(BAdd(st.r, st.r), IF BBit(n, i) = 1 THEN <<1>> ELSE <<>>)
      ge == BCmp(r2, d) >= 0
  IN  [q |-> BAdd(BAdd(st.q, st.q), IF ge THEN <<1>> ELSE <<>>),
       r |-> IF ge THEN BSub(r2, d) ELSE r2]

\* the steps for bits hi, hi-1, .., lo in that order.  The range is split in
\* halves and the first half is evaluated (the test done = done) before the
\* second starts, which keeps TLC's evaluation shallow.
RECURSIVE BLongDiv(_, _, _, _, _)
BLongDiv(n, d, hi, lo, st) ==
  IF hi < lo THEN st
  ELSE IF hi = lo THEN BLongDivStep(n, d, hi, st)
  ELSE LET mid  == (hi + lo) \div 2
           done == BLongDiv(n, d, hi, mid + 1, st)
       IN  IF done = done THEN BLongDiv(n, d, mid, lo, done) ELSE done

\* quotient and remainder of n by d # 0
BDivRem(n, d) == BLongDiv(n, d, BBitLen(n) - 1, 0, [q |-> <<>>, r |-> <<>>])

(***************************************************************************)
(* binary64.  A finite float is (-1)^s * m * 2^e with m odd (or m = 0 and  *)
(* e = 0), so that two finite non-zero floats are equal as records exactly *)
(* when they are equal as numbers.  k is "fin", "inf" or "nan"; a value    *)
(* with k = "exc" stands for an expression whose evaluation raised.        *)
(***************************************************************************)
DBL_MANT_DIG == 53

DBL_MAX_EXP == 1024

DBL_MIN_SUB_EXP == 0 - 1074

Zero(s) == [k |-> "fin", s |-> s, m |-> <<>>, e |-> 0]

Inf(s) == [k |-> "inf", s |-> s, m |-> <<>>, e |-> 0]

NaN == [k |-> "nan", s |-> 0, m |-> <<>>, e |-> 0]

Raise(name) == [k |-> "exc", s |-> 0, m |-> <<>>, e |-> 0, exc |-> name]

IsExc(x) == x.k = "exc"

IsZero(x) == x.k = "fin" /\ x.m = <<>>

FNorm(s, m, e) ==
  IF m = <<>> THEN Zero(s)
  ELSE LET tz == BTz(m)
       IN  [k |-> "fin", s |-> s, m |-> BShr(m, tz), e |-> e + tz]

\* the float nearest to (-1)^s * m * 2^e, ties to even; overflow gives Inf
Round(s, m, e) ==
  IF m = <<>> THEN Zero(s)
  ELSE LET len == BBitLen(m)
           q   == Max(len + e - DBL_MANT_DIG, DBL_MIN_SUB_EXP)
       IN  IF q <= e
           THEN IF len + e > DBL_MAX_EXP THEN Inf(s) ELSE FNorm(s, m, e)
           ELSE LET sh     == q - e
                    kept   == BShr(m, sh)
                    guard  == BBit(m, sh - 1) = 1
                    sticky == ~BLowZero(m, sh - 1)
                    up     == guard /\ (sticky \/ BBit(kept, 0) = 1)
                    res    == IF up THEN BAdd(kept, <<1>>) ELSE kept
                IN  IF BBitLen(res) + q > DBL_MAX_EXP THEN Inf(s)
                    ELSE FNorm(s, res, q)

\* int -> float, exact for |n| < 2^31
FromInt(n) ==
  IF n < 0 THEN FNorm(1, BFromInt(0 - n), 0) ELSE FNorm(0, BFromInt(n), 0)

FNeg(x) == IF x.k \in {"exc", "nan"} THEN x ELSE [x EXCEPT !.s = 1 - x.s]

\* x + y
FAdd(x, y) ==
  IF IsExc(x) THEN x
  ELSE IF IsExc(y) THEN y
  ELSE IF x.k = "nan" \/ y.k = "nan" THEN NaN
  ELSE IF x.k = "inf"
       THEN IF y.k = "inf" /\ y.s # x.s THEN NaN ELSE x
  ELSE IF y.k = "inf" THEN y
  ELSE IF x.m = <<>> /\ y.m = <<>>
       THEN Zero(IF x.s = 1 /\ y.s = 1 THEN 1 ELSE 0)
  ELSE IF x.m = <<>> THEN y
  ELSE IF y.m = <<>> THEN x
  \* an operand below a 2^-8 of the other's last place cannot change the
  \* rounded sum
  ELSE IF (BBitLen(x.m) + x.e) - (BBitLen(y.m) + y.e) > DBL_MANT_DIG + 8 THEN x
  ELSE IF (BBitLen(y.m) + y.e) - (BBitLen(x.m) + x.e) > DBL_MANT_DIG + 8 THEN y
  ELSE LET e  == Min(x.e, y.e)
           mx == BShl(x.m, x.e - e)
           my == BShl(y.m, y.e - e)
           c  == BCmp(mx, my)
       IN  IF x.s = y.s THEN Round(x.s, BAdd(mx, my), e)
           ELSE IF c = 0 THEN Zero(0)
           ELSE IF c > 0 THEN Round(x.s, BSub(mx, my), e)
           ELSE Round(y.s, BSub(my, mx), e)

\* x - y
FSub(x, y) == FAdd(x, FNeg(y))

\* x * y
FMul(x, y) ==
  IF IsExc(x) THEN x
  ELSE IF IsExc(y) THEN y
  ELSE IF x.k = "nan" \/ y.k = "nan" THEN NaN
  ELSE IF x.k = "inf" \/ y.k = "inf"
       THEN IF IsZero(x) \/ IsZero(y) THEN NaN ELSE Inf((x.s + y.s) % 2)
  ELSE Round((x.s + y.s) % 2, BMul(x.m, y.m), x.e + y.e)

\* x / y; float division by zero raises ZeroDivisionError
FDiv(x, y) ==
  IF IsExc(x) THEN x
  ELSE IF IsExc(y) THEN y
  ELSE IF IsZero(y) THEN Raise("ZeroDivisionError")
  ELSE IF x.k = "nan" \/ y.k = "nan" THEN NaN
  ELSE IF x.k = "inf"
       THEN IF y.k = "inf" THEN NaN ELSE Inf((x.s + y.s) % 2)
  ELSE IF y.k = "inf" \/ x.m = <<>> THEN Zero((x.s + y.s) % 2)
  ELSE LET sh == Max(0, BBitLen(y.m) + DBL_MANT_DIG + 2 - BBitLen(x.m))
           qr == BDivRem(BShl(x.m, sh), y.m)
           \* one more low bit records whether the quotient was inexact
           m  == BAdd(BAdd(qr.q, qr.q), IF qr.r = <<>> THEN <<>> ELSE <<1>>)
       IN  Round((x.s + y.s) % 2, m, x.e - y.e - sh - 1)

\* x == y
FEq(x, y) ==
  IF x.k = "nan" \/ y.k = "nan" THEN FALSE
  ELSE IF IsZero(x) /\ IsZero(y) THEN TRUE
  ELSE x = y

\* the exact power m^n of a natural number
RECURSIVE BPow(_, _)
BPow(m, n) ==
  IF n = 0 THEN <<1>>
  ELSE IF n = 1 THEN m
  ELSE LET h == BPow(m, n \div 2)
       IN  IF n % 2 = 0 THEN BMul(h, h) ELSE BMul(BMul(h, h), m)

\* x ** n for a finite float x and an int n >= 0: the correctly rounded
\* power, 1.0 for n = 0 whatever x is, OverflowError when the result is
\* out of the float range
FPow(x, n) ==
  IF IsExc(x) THEN x
  ELSE IF n = 0 THEN FromInt(1)
  ELSE IF x.k # "fin" THEN x
  ELSE LET s == IF n % 2 = 1 THEN x.s ELSE 0
           r == Round(s, BPow(x.m, n), x.e * n)
       IN  IF r.k = "inf" THEN Raise("OverflowError") ELSE r

(***************************************************************************)
(* Python values used by the scripts.                                      *)
(***************************************************************************)
None == [k |-> "None"]

\* str(x) of a float: the shortest decimal text that reads back as x.  It
\* is one-to-one on floats (0.0 and -0.0 print differently), so the text
\* is identified by the float it prints.
str(x) == [str |-> x]

\* the float nearest to t/10: what the text "0.1", "0.2", .. is read as
Tenths(t) == FDiv(FromInt(t), FromInt(10))

\* 2.0 ** p, exactly
TwoTo(p) == FNorm(0, <<1>>, p)

\* acc + sequence[lo] + .. + sequence[hi], added in index order (the range
\* is split in halves; the first half is evaluated before the second)
RECURSIVE SumRange(_, _, _, _)
SumRange(sequence, lo, hi, acc) ==
  IF hi < lo THEN acc
  ELSE IF hi = lo THEN FAdd(acc, sequence[lo])
  ELSE LET mid  == (lo + hi) \div 2
           left == SumRange(sequence, lo, mid, acc)
       IN  IF left = left THEN SumRange(sequence, mid + 1, hi, left) ELSE left

\* faulty variant of sum: the first item is left out (sum(sequence[1:]))
sum_skipping_first(sequence) ==
  SumRange(sequence, 2, Len(sequence), FromInt(0))

\* the builtin sum(sequence): start from the int 0, add the items in order
sum(sequence) == SumRange(sequence, 1, Len(sequence), FromInt(0))

(***************************************************************************)
(* The three functions of the scripts.                                     *)
(***************************************************************************)
\* faulty variant: n runs over 1..num_terms instead of range(num_terms)
generate_arithmetic_sequence_from_one(first_term, common_difference, num_terms) ==
  [i \in 1..num_terms |->
     FAdd(first_term, FMul(FromInt(i), common_difference))]

generate_arithmetic_sequence(first_term, common_difference, num_terms) ==
  [i \in 1..num_terms |->
     FAdd(first_term, FMul(FromInt(i - 1), common_difference))]

\* faulty variant: the exponent runs over 1..num_terms
generate_geometric_sequence_from_one(first_term, common_ratio, num_terms) ==
  IF \E i \in 1..num_terms : IsExc(FMul(first_term, FPow(common_ratio, i)))
  THEN [raised |-> TRUE, value |-> "OverflowError"]
  ELSE [raised |-> FALSE,
        value  |-> [i \in 1..num_terms |->
                      FMul(first_term, FPow(common_ratio, i))]]

\* The result is [raised |-> FALSE, value |-> the list] or, when computing
\* a term raises, [raised |-> TRUE, value |-> the exception's name].  Only
\* ** raises here and it only raises OverflowError, so the exception of any
\* failing term is the exception of the first failing term.
generate_geometric_sequence(first_term, common_ratio, num_terms) ==
  IF \E i \in 1..num_terms : IsExc(FMul(first_term, FPow(common_ratio, i - 1)))
  THEN [raised |-> TRUE,
        value  |-> FMul(first_term,
                        FPow(common_ratio,
                             (CHOOSE i \in 1..num_terms :
                                IsExc(FMul(first_term,
                                           FPow(common_ratio, i - 1)))) - 1)).exc]
  ELSE [raised |-> FALSE,
        value  |-> [i \in 1..num_terms |->
                      FMul(first_term, FPow(common_ratio, i - 1))]]

\* faulty variant: the closed form without the branch for ratio 1
calculate_geometric_sum_unguarded(first_term, common_ratio, num_terms) ==
  FDiv(FMul(first_term, FSub(FromInt(1), FPow(common_ratio, num_terms))),
       FSub(FromInt(1), common_ratio))

\* faulty variant: the exponent is num_terms - 1
calculate_geometric_sum_short(first_term, common_ratio, num_terms) ==
  IF FEq(common_ratio, FromInt(1))
  THEN FMul(first_term, FromInt(num_terms))
  ELSE FDiv(FMul(first_term,
                 FSub(FromInt(1), FPow(common_ratio, num_terms - 1))),
            FSub(FromInt(1), common_ratio))

\* faulty variant: the numerator is ratio ** num_terms - 1
calculate_geometric_sum_flipped(first_term, common_ratio, num_terms) ==
  IF FEq(common_ratio, FromInt(1))
  THEN FMul(first_term, FromInt(num_terms))
  ELSE FDiv(FMul(first_term,
                 FSub(FPow(common_ratio, num_terms), FromInt(1))),
            FSub(FromInt(1), common_ratio))

\* a float, or a value with k = "exc" when the evaluation raises
calculate_geometric_sum(first_term, common_ratio, num_terms) ==
  IF FEq(common_ratio, FromInt(1))
  THEN FMul(first_term, FromInt(num_terms))
  ELSE FDiv(FMul(first_term,
                 FSub(FromInt(1), FPow(common_ratio, num_terms))),
            FSub(FromInt(1), common_ratio))

(***************************************************************************)
(* The state: which script is deployed, the widget values Streamlit keeps  *)
(* between runs, and what the last run of main left behind (its locals as  *)
(* they were when it ended, and the page it built).  runs counts the runs  *)
(* of the script since the widgets last changed.                           *)
(***************************************************************************)
VARIABLES script, pc, runs,
          sequence_type, first_term, num_terms, common_difference,
          common_ratio, show_table,
          sequence, sequence_sum, calls,
          errors, terms_shown, metrics, table, download, about, escaped

widgets == <<sequence_type, first_term, num_terms, common_difference,
             common_ratio, show_table>>

outputs == <<sequence, sequence_sum, calls, errors, terms_shown, metrics,
             table, download, about, escaped>>

vars == <<script, pc, runs, widgets, outputs>>

\* ---- bounds of the explored inputs ----
MaxSmallTerms == 3

MaxPowBits == 1200

MaxRuns == 2

Scripts == {"app.py", "app (2).py"}

SequenceTypes == {"Arithmetic", "Geometric"}

FirstTerms == {FromInt(1), FromInt(0 - 3)}

Steps == {FromInt(0), FromInt(1), FromInt(2), FromInt(0 - 2), FromInt(10),
          Tenths(2), TwoTo(600)}

TermCounts == (0..MaxSmallTerms) \cup {16, 20, 21, 51, 1000, 1001}

\* the exact power ratio ** (n - 1), .., ratio ** n the model has to form
\* stays within MaxPowBits bits
Explorable(ratio, n) == BBitLen(ratio.m) * n <= MaxPowBits

(***************************************************************************)
(* main, piece by piece.                                                   *)
(***************************************************************************)
MAX_TERMS == 1000

DOWNLOAD_ABOVE == 20

SHOW_ALL_UP_TO == 50

EDGE_TERMS == 10

TABLE_LIMIT == 100

\* faulty variant: the first test is num_terms < 0
ValidationError_zero_passes(n) ==
  IF n < 0 THEN "Number of terms must be a positive integer!"
  ELSE IF n > MAX_TERMS THEN "Number of terms cannot exceed 1000!"
  ELSE ""

\* "Input validation": the message of st.error, "" when the input passes
ValidationError(n) ==
  IF n <= 0 THEN "Number of terms must be a positive integer!"
  ELSE IF n > MAX_TERMS THEN "Number of terms cannot exceed 1000!"
  ELSE ""

Message(text, detail) == [text |-> text, detail |-> detail]

\* the classes "except Exception" is asked about here, all of them
\* subclasses of Exception
ExceptionClasses == {"OverflowError", "ZeroDivisionError", "IndexError"}

\* faulty variant: the handler is "except ZeroDivisionError"
Catches_only_division(exc) == exc = "ZeroDivisionError"

Catches(exc) == exc \in ExceptionClasses

\* faulty variant: the list is a module-level one the runs keep extending
Compute_extending(type, first, difference, ratio, n) ==
  IF type = "Arithmetic"
  THEN LET seq == sequence \o generate_arithmetic_sequence(first, difference, n)
       IN  [exc          |-> "",
            sequence     |-> seq,
            sequence_sum |-> sum(seq),
            calls        |-> << <<"generate_arithmetic_sequence", n>> >>]
  ELSE LET g == generate_geometric_sequence(first, ratio, n)
           t == calculate_geometric_sum(first, ratio, n)
       IN  IF g.raised
           THEN [exc          |-> g.value,
                 sequence     |-> <<>>,
                 sequence_sum |-> None,
                 calls        |-> << <<"generate_geometric_sequence", n>> >>]
           ELSE [exc          |-> IF IsExc(t) THEN t.exc ELSE "",
                 sequence     |-> sequence \o g.value,
                 sequence_sum |-> IF IsExc(t) THEN None ELSE t,
                 calls        |-> << <<"generate_geometric_sequence", n>>,
                                     <<"calculate_geometric_sum", n>> >>]

\* the first statements of the try block of "app (2).py": what was called
\* (name and num_terms argument), the locals bound, the exception raised
Compute(type, first, difference, ratio, n) ==
  IF type = "Arithmetic"
  THEN LET seq == generate_arithmetic_sequence(first, difference, n)
       IN  [exc          |-> "",
            sequence     |-> seq,
            sequence_sum |-> sum(seq),
            calls        |-> << <<"generate_arithmetic_sequence", n>> >>]
  ELSE LET g == generate_geometric_sequence(first, ratio, n)
           t == calculate_geometric_sum(first, ratio, n)
       IN  IF g.raised
           THEN [exc          |-> g.value,
                 sequence     |-> <<>>,
                 sequence_sum |-> None,
                 calls        |-> << <<"generate_geometric_sequence", n>> >>]
           ELSE [exc          |-> IF IsExc(t) THEN t.exc ELSE "",
                 sequence     |-> g.value,
                 sequence_sum |-> IF IsExc(t) THEN None ELSE t,
                 calls        |-> << <<"generate_geometric_sequence", n>>,
                                     <<"calculate_geometric_sum", n>> >>]

\* the try block of "app.py": the list is generated first, sum(sequence) is
\* evaluated when the metric is written
ComputeApp(first, difference, n) ==
  LET seq == generate_arithmetic_sequence(first, difference, n)
  IN  [exc          |-> "",
       sequence     |-> seq,
       sequence_sum |-> sum(seq),
       calls        |-> << <<"generate_arithmetic_sequence", n>> >>]

\* "Show sequence in a formatted way"
TermsShown(seq, n) ==
  IF n <= SHOW_ALL_UP_TO
  THEN [all   |-> TRUE,
        first |-> [i \in 1..Len(seq) |-> str(seq[i])],
        last  |-> <<>>]
  ELSE [all   |-> FALSE,
        first |-> [i \in 1..Min(EDGE_TERMS, Len(seq)) |-> str(seq[i])],
        last  |-> [i \in 1..Min(EDGE_TERMS, Len(seq)) |->
                     str(seq[Len(seq) - Min(EDGE_TERMS, Len(seq)) + i])]]

\* the four st.metric calls
Metrics(type, seq, total) ==
  << <<"First Term", seq[1]>>,
     <<IF type = "Geometric" THEN "Sum of Series" ELSE "Sum of Sequence",
       total>>,
     <<"Last Term", seq[Len(seq)]>>,
     <<"Range", FSub(seq[Len(seq)], seq[1])>> >>

\* "Show sequence in table format"
Table(seq, checked) ==
  IF checked
  THEN [shown   |-> TRUE,
        warning |-> Len(seq) > Min(TABLE_LIMIT, Len(seq)),
        rows    |-> [i \in 1..Min(TABLE_LIMIT, Len(seq)) |-> <<i, seq[i]>>]]
  ELSE [shown |-> FALSE, warning |-> FALSE, rows |-> <<>>]

NoDownload == [offered |-> FALSE, data |-> <<>>, file_name |-> <<>>]

\* faulty variant: the test is num_terms >= 20
Download_from_twenty(type, first, step, seq, n) ==
  IF n >= DOWNLOAD_ABOVE
  THEN [offered   |-> TRUE,
        data      |-> [i \in 1..Len(seq) |-> <<"Term ", i, ": ", str(seq[i])>>],
        file_name |-> <<IF type = "Arithmetic" THEN "arithmetic_sequence_"
                        ELSE "geometric_sequence_",
                        str(first), "_", str(step), "_", n, ".txt">>]
  ELSE NoDownload

\* "Download option for larger sequences".  data is the text as its lines
\* ("\n".join of texts that hold no newline), a line and the file name are
\* the pieces the f-string puts together
Download(type, first, step, seq, n) ==
  IF n > DOWNLOAD_ABOVE
  THEN [offered   |-> TRUE,
        data      |-> [i \in 1..Len(seq) |-> <<"Term ", i, ": ", str(seq[i])>>],
        file_name |-> <<IF type = "Arithmetic" THEN "arithmetic_sequence_"
                        ELSE "geometric_sequence_",
                        str(first), "_", str(step), "_", n, ".txt">>]
  ELSE NoDownload

NoTable == [shown |-> FALSE, warning |-> FALSE, rows |-> <<>>]

NoTerms == [all |-> FALSE, first |-> <<>>, last |-> <<>>]

\* what the with col2 block and the rest of main do, given the outcome c of
\* the computation (c is not evaluated when validation fails)
Body(type, first, step, n, checked, invalid, c) ==
  IF invalid # ""
  THEN \* st.error and return: the function ends before the expander
       [sequence |-> <<>>, sequence_sum |-> None, calls |-> <<>>,
        errors |-> <<Message(invalid, "")>>,
        terms_shown |-> NoTerms, metrics |-> <<>>, table |-> NoTable,
        download |-> NoDownload, about |-> FALSE, escaped |-> ""]
  ELSE IF c.exc # ""
  THEN [sequence |-> c.sequence, sequence_sum |-> None, calls |-> c.calls,
        errors |-> IF Catches(c.exc)
                   THEN <<Message("An error occurred while generating the sequence: ",
                                  c.exc)>>
                   ELSE <<>>,
        terms_shown |-> NoTerms, metrics |-> <<>>, table |-> NoTable,
        download |-> NoDownload,
        about |-> Catches(c.exc),
        escaped |-> IF Catches(c.exc) THEN "" ELSE c.exc]
  ELSE IF c.sequence = <<>>
  THEN \* sequence[0] of an empty list raises IndexError, after the terms
       \* were written
       [sequence |-> c.sequence, sequence_sum |-> c.sequence_sum,
        calls |-> c.calls,
        errors |-> IF Catches("IndexError")
                   THEN <<Message("An error occurred while generating the sequence: ",
                                  "IndexError")>>
                   ELSE <<>>,
        terms_shown |-> TermsShown(c.sequence, n), metrics |-> <<>>,
        table |-> NoTable, download |-> NoDownload,
        about |-> Catches("IndexError"),
        escaped |-> IF Catches("IndexError") THEN "" ELSE "IndexError"]
  ELSE [sequence |-> c.sequence, sequence_sum |-> c.sequence_sum,
        calls |-> c.calls, errors |-> <<>>,
        terms_shown |-> TermsShown(c.sequence, n),
        metrics |-> Metrics(type, c.sequence, c.sequence_sum),
        table |-> Table(c.sequence, checked),
        download |-> Download(type, first, step, c.sequence, n),
        about |-> TRUE, escaped |-> ""]

Leaves(out) ==
  /\ sequence' = out.sequence
  /\ sequence_sum' = out.sequence_sum
  /\ calls' = out.calls
  /\ errors' = out.errors
  /\ terms_shown' = out.terms_shown
  /\ metrics' = out.metrics
  /\ table' = out.table
  /\ download' = out.download
  /\ about' = out.about
  /\ escaped' = out.escaped

\* nothing computed, nothing on the page
Blank ==
  [sequence |-> <<>>, sequence_sum |-> None, calls |-> <<>>,
   errors |-> <<>>, terms_shown |-> NoTerms, metrics |-> <<>>,
   table |-> NoTable, download |-> NoDownload, about |-> FALSE,
   escaped |-> ""]

(***************************************************************************)
(* Actions.                                                                *)
(***************************************************************************)
\* the widgets at their default values, the script about to run
Init ==
  /\ script \in Scripts
  /\ pc = "rerun"
  /\ runs = 0
  /\ sequence_type = "Arithmetic"
  /\ first_term = FromInt(1)
  /\ num_terms = 10
  /\ common_difference = FromInt(1)
  /\ common_ratio = None
  /\ show_table = FALSE
  /\ sequence = Blank.sequence
  /\ sequence_sum = Blank.sequence_sum
  /\ calls = Blank.calls
  /\ errors = Blank.errors
  /\ terms_shown = Blank.terms_shown
  /\ metrics = Blank.metrics
  /\ table = Blank.table
  /\ download = Blank.download
  /\ about = Blank.about
  /\ escaped = Blank.escaped

\* Every change of a widget makes Streamlit run the script again, on a page
\* that starts empty.  The limits the number widgets are created with are
\* enforced by the front end; main validates num_terms itself, so any
\* integer is offered here.
Rerun ==
  /\ pc' = "rerun"
  /\ runs' = 0
  /\ Leaves(Blank)
  /\ UNCHANGED script

\* the radio of "app (2).py": the step widget of the other type is created
\* anew, with its default value (difference 1.0, ratio 2.0)
SelectType ==
  /\ script = "app (2).py"
  /\ \E type \in SequenceTypes :
       /\ type # sequence_type
       /\ sequence_type' = type
       /\ common_difference' = IF type = "Arithmetic" THEN FromInt(1) ELSE None
       /\ common_ratio' = IF type = "Geometric" THEN FromInt(2) ELSE None
  /\ Rerun
  /\ UNCHANGED <<first_term, num_terms, show_table>>

SetFirstTerm ==
  /\ \E first \in FirstTerms : first_term' = first
  /\ Rerun
  /\ UNCHANGED <<sequence_type, num_terms, common_difference, common_ratio,
                 show_table>>

SetNumTerms ==
  /\ \E n \in TermCounts :
       /\ sequence_type = "Geometric" => Explorable(common_ratio, n)
       /\ num_terms' = n
  /\ Rerun
  /\ UNCHANGED <<sequence_type, first_term, common_difference, common_ratio,
                 show_table>>

SetStep ==
  /\ \E step \in Steps :
       /\ sequence_type = "Geometric" => Explorable(step, num_terms)
       /\ common_difference' = IF sequence_type = "Arithmetic" THEN step
                               ELSE None
       /\ common_ratio' = IF sequence_type = "Geometric" THEN step ELSE None
  /\ Rerun
  /\ UNCHANGED <<sequence_type, first_term, num_terms, show_table>>

\* the checkbox exists only on a page that shows a sequence
ToggleTable ==
  /\ pc = "returned"
  /\ metrics # <<>>
  /\ show_table' = ~show_table
  /\ Rerun
  /\ UNCHANGED <<sequence_type, first_term, num_terms, common_difference,
                 common_ratio>>

\* one run of main of "app (2).py"; it runs again on unchanged widgets when
\* the user asks for a rerun
main ==
  /\ script = "app (2).py"
  /\ escaped = ""
  /\ runs < MaxRuns
  /\ runs' = runs + 1
  /\ Leaves(Body(sequence_type, first_term,
                 IF sequence_type = "Arithmetic" THEN common_difference
                 ELSE common_ratio,
                 num_terms, show_table, ValidationError(num_terms),
                 Compute(sequence_type, first_term, common_difference,
                         common_ratio, num_terms)))
  /\ pc' = "returned"
  /\ UNCHANGED <<script, widgets>>

\* one run of main of "app.py"
main_app ==
  /\ script = "app.py"
  /\ escaped = ""
  /\ runs < MaxRuns
  /\ runs' = runs + 1
  /\ Leaves(Body("Arithmetic", first_term, common_difference, num_terms,
                 show_table, ValidationError(num_terms),
                 ComputeApp(first_term, common_difference, num_terms)))
  /\ pc' = "returned"
  /\ UNCHANGED <<script, widgets>>

Next ==
  \/ SelectType
  \/ SetFirstTerm
  \/ SetNumTerms
  \/ SetStep
  \/ ToggleTable
  \/ main
  \/ main_app

Spec == Init /\ [][Next]_vars

(***************************************************************************)
(* Properties.                                                             *)
(***************************************************************************)
Finished == pc = "returned"

Validated == num_terms >= 1 /\ num_terms <= 1000

Step == IF sequence_type = "Arithmetic" THEN common_difference ELSE common_ratio

ComputationFailed == errors # <<>> /\ errors[1].detail # ""

\* x is an integer of magnitude below 2^bits
Within(x, bits) ==
  x.k = "fin" /\ (x.m = <<>> \/ (x.e >= 0 /\ BBitLen(x.m) + x.e <= bits))

IntValued(x) == x.k = "fin" /\ (x.m = <<>> \/ x.e >= 0)

\* |x| of an integer-valued x, as a natural number
IntMag(x) == BShl(x.m, x.e)

\* a*n + d*n*(n-1)/2 as Python evaluates it on floats a, d and an int n
ClosedForm(a, d, n) ==
  FAdd(FMul(a, FromInt(n)),
       FDiv(FMul(FMul(d, FromInt(n)), FromInt(n - 1)), FromInt(2)))

\* a and r are integers with |a| * (1 + |r|^n) <= 2^43: every power, term,
\* product and partial sum of at most 1000 terms is then an exact float
ExactRange(a, r, n) ==
  /\ Within(a, 43)
  /\ Within(r, 43)
  /\ (BBitLen(r.m) + r.e - 1) * n <= 43
  /\ BCmp(BMul(IntMag(a), BAdd(<<1>>, BPow(IntMag(r), n))),
          BShl(<<1>>, 43)) <= 0

\* C1: after a validated arithmetic request the list has exactly num_terms
\* elements and the element at index i (from 0) is first_term + i *
\* common_difference; index 0 is first_term.
C1_ArithmeticTerms ==
  (Finished /\ sequence_type = "Arithmetic" /\ Validated) =>
    /\ Len(sequence) = num_terms
    /\ FEq(sequence[1], first_term)
    /\ \A i \in 0..(num_terms - 1) :
         FEq(sequence[i + 1],
             FAdd(first_term, FMul(FromInt(i), common_difference)))

C1_Witness ==
  /\ Finished
  /\ sequence_type = "Arithmetic"
  /\ num_terms = 1000
  /\ Len(sequence) = 1000
  /\ ~IsZero(common_difference)
  /\ sequence[1000] = FAdd(first_term, FMul(FromInt(999), common_difference))

\* C2 as stated: after every validated geometric request the list has
\* exactly num_terms elements, element i being first_term * common_ratio**i.
C2_Original ==
  (Finished /\ sequence_type = "Geometric" /\ Validated) =>
    /\ Len(sequence) = num_terms
    /\ \A i \in 0..(num_terms - 1) :
         FEq(sequence[i + 1], FMul(first_term, FPow(common_ratio, i)))

\* C2 amended: the list has exactly num_terms elements, element i being
\* first_term * common_ratio**i (common_ratio**0 is 1 also for ratio 0),
\* unless common_ratio**i leaves the float range for some i < num_terms;
\* then the generator raises OverflowError, no list is bound and nothing
\* else is called.
C2_GeometricTermsOrOverflow ==
  (Finished /\ sequence_type = "Geometric" /\ Validated) =>
    IF \E i \in 0..(num_terms - 1) : IsExc(FPow(common_ratio, i))
    THEN /\ sequence = <<>>
         /\ calls = << <<"generate_geometric_sequence", num_terms>> >>
         /\ ComputationFailed
         /\ errors[1].detail = "OverflowError"
    ELSE /\ Len(sequence) = num_terms
         /\ FEq(sequence[1], first_term)
         /\ \A i \in 0..(num_terms - 1) :
              FEq(sequence[i + 1], FMul(first_term, FPow(common_ratio, i)))

C2_Witness ==
  /\ Finished
  /\ sequence_type = "Geometric"
  /\ IsZero(common_ratio)
  /\ num_terms = 3
  /\ sequence = <<first_term, Zero(first_term.s), Zero(first_term.s)>>

C4_Original ==
  (Finished /\ sequence_type = "Arithmetic" /\ Validated) =>
    FEq(sequence_sum, ClosedForm(first_term, common_difference, num_terms))

\* C4 amended: for integers a, d of magnitude below 2^31 and n in 1..1000
\* the arithmetic sum reported equals a*n + d*n*(n-1)/2.
C4_SumIsClosedFormOnIntegers ==
  (/\ Finished /\ sequence_type = "Arithmetic" /\ Validated
   /\ Within(first_term, 31) /\ Within(common_difference, 31)) =>
    FEq(sequence_sum, ClosedForm(first_term, common_difference, num_terms))

C4_Witness ==
  /\ Finished
  /\ sequence_type = "Arithmetic"
  /\ num_terms = 1000
  /\ first_term = FromInt(0 - 3)
  /\ common_difference = FromInt(10)
  /\ sequence_sum = FromInt(4992000)
  /\ metrics[2] = <<"Sum of Sequence", sequence_sum>>

\* C5: a request with num_terms <= 0 or > 1000 ends with the validation
\* message and no call; every call main makes has num_terms in 1..1000.
C5_Validation ==
  Finished =>
    /\ (num_terms <= 0 \/ num_terms > 1000) =>
         /\ Len(errors) = 1
         /\ errors[1].detail = ""
         /\ errors[1].text = (IF num_terms <= 0
                              THEN "Number of terms must be a positive integer!"
                              ELSE "Number of terms cannot exceed 1000!")
         /\ calls = <<>>
         /\ sequence = <<>>
         /\ metrics = <<>>
    /\ \A c \in 1..Len(calls) : calls[c][2] >= 1 /\ calls[c][2] <= 1000

C5_Witness ==
  /\ Finished
  /\ num_terms = 1001
  /\ errors = <<Message("Number of terms cannot exceed 1000!", "")>>
  /\ calls = <<>>

\* C6 as stated: with num_terms = 1 the list is [first_term] and the sum
\* reported equals first_term, for both kinds and every ratio.
C6_Original ==
  (Finished /\ Validated /\ num_terms = 1) =>
    /\ Len(sequence) = 1
    /\ FEq(sequence[1], first_term)
    /\ FEq(sequence_sum, first_term)

\* C6 amended: with num_terms = 1 the list is [first_term]; the sum
\* reported equals first_term for the arithmetic kind, for ratio 1, and for
\* a ratio other than 1 when first_term and the ratio are integers of
\* magnitude below 2^26 (first_term * (1 - ratio) is then exact).
C6_SingleTerm ==
  (Finished /\ Validated /\ num_terms = 1) =>
    /\ Len(sequence) = 1
    /\ FEq(sequence[1], first_term)
    /\ (\/ sequence_type = "Arithmetic"
        \/ FEq(common_ratio, FromInt(1))
        \/ Within(first_term, 26) /\ Within(common_ratio, 26)) =>
         FEq(sequence_sum, first_term)

C6_Witness ==
  /\ Finished
  /\ sequence_type = "Geometric"
  /\ num_terms = 1
  /\ common_ratio = FromInt(10)
  /\ sequence = <<first_term>>
  /\ sequence_sum = first_term

\* what the export holds when it is offered
ExportContent ==
  /\ Len(download.data) = num_terms
  /\ \A k \in 1..num_terms :
       download.data[k] = <<"Term ", k, ": ", str(sequence[k])>>
  /\ download.file_name =
       <<IF sequence_type = "Arithmetic" THEN "arithmetic_sequence_"
         ELSE "geometric_sequence_",
         str(first_term), "_", str(Step), "_", num_terms, ".txt">>

\* C7 as stated: for a validated request the export is offered iff
\* num_terms > 20, with one line "Term k: value" per term and the file name
\* of the kind and parameters.
C7_Original ==
  (Finished /\ Validated) =>
    /\ download.offered <=> num_terms > 20
    /\ download.offered => ExportContent

\* C7 amended: the same for a validated request whose computation raises
\* nothing; when the computation raises, no export is offered.
C7_ExportUnlessFailed ==
  (Finished /\ Validated) =>
    IF ComputationFailed
    THEN ~download.offered
    ELSE /\ download.offered <=> num_terms > 20
         /\ download.offered => ExportContent

C7_Witness ==
  /\ Finished
  /\ sequence_type = "Geometric"
  /\ num_terms = 21
  /\ download.offered
  /\ Len(download.data) = 21
  /\ download.data[21] = <<"Term ", 21, ": ", str(sequence[21])>>
  /\ download.file_name[1] = "geometric_sequence_"

\* C8: no exception of the generation or the summation leaves main; it is
\* reported as the computation error and main runs to its end.
C8_FailureCaught ==
  Finished =>
    /\ escaped = ""
    /\ (calls # <<>> /\ sequence_sum = None) =>
         /\ Len(errors) = 1
         /\ errors[1].text = "An error occurred while generating the sequence: "
         /\ errors[1].detail # ""
         /\ about

C8_Witness ==
  /\ Finished
  /\ Validated
  /\ Len(calls) = 2
  /\ sequence_sum = None
  /\ errors = <<Message("An error occurred while generating the sequence: ",
                        "OverflowError")>>
  /\ about
  /\ escaped = ""

C10_Original ==
  (/\ Finished /\ sequence_type = "Geometric" /\ Validated /\ metrics # <<>>
   /\ IntValued(first_term) /\ IntValued(common_ratio)) =>
    FEq(metrics[2][2], sum(sequence))

\* C10 amended: the same for integers a, r with |a| * (1 + |r|^n) <= 2^43;
\* the sum shown is then an integer (the division is exact).
C10_ShownSumIsListSumWhenExact ==
  (/\ Finished /\ sequence_type = "Geometric" /\ Validated /\ metrics # <<>>
   /\ ExactRange(first_term, common_ratio, num_terms)) =>
    /\ FEq(metrics[2][2], sum(sequence))
    /\ IntValued(metrics[2][2])

C10_Witness ==
  /\ Finished
  /\ sequence_type = "Geometric"
  /\ num_terms = 21
  /\ common_ratio = FromInt(0 - 2)
  /\ first_term = FromInt(0 - 3)
  /\ metrics # <<>>
  /\ metrics[2][2] = FromInt(0 - 2097153)
  /\ metrics[2][2] = sum(sequence)

====
